---- MODULE Spec2Model ----
(***************************************************************************)
(* Model of the model-invocation layer of curator-benchmarking:            *)
(*   src/src/model_client.py      ModelClient (router)                     *)
(*   src/src/openrouter_client.py OpenRouterClient (plain + tool path)     *)
(*   src/src/bedrock_client.py    BedrockClient (plain path only)          *)
(*   src/src/tool_executor.py     ToolExecutor                             *)
(* Spec follows one invocation from the call to its return (or to the     *)
(* exception that escapes it).  The backend's answers and the caller's     *)
(* arguments are the inputs; they are drawn from the small sets below.     *)
(* BatchSpec and ExecutorSpec follow a caller that uses a ToolExecutor by  *)
(* itself, RouterSpec a sequence of calls through one ModelClient, and     *)
(* ThreadsSpec two tool-path invocations in parallel threads.              *)
(***************************************************************************)
EXTENDS Integers, Sequences, FiniteSets, TLC

VARIABLES
    pc,                 \* position of the invocation
    via,                \* "router" (ModelClient.invoke_model) or "direct"
    backend,            \* backend client that runs the invocation
    path,               \* "plain" or "tools"
    model_id,           \* argument model_id (sequence of characters)
    max_retries,        \* argument max_retries
    tools,              \* argument tools (<<>> stands for None or [])
    tool_executor,      \* argument tool_executor
    api_key,            \* OpenRouterClient.api_key
    bearer_token,       \* BedrockClient.bearer_token
    openrouter_client,  \* ModelClient.openrouter_client
    bedrock_client,     \* ModelClient.bedrock_client
    attempt,            \* loop variable of `for attempt in range(max_retries)`
    tool_iterations,    \* local of _invoke_model_with_tools
    all_tool_calls,     \* local of _invoke_model_with_tools
    messages,           \* the conversation sent with each request
    response_body,      \* last parsed response body
    execution_history,  \* ToolExecutor.execution_history
    result,             \* the returned dictionary
    raised,             \* exception that escaped the call, or None
    delays,             \* every time.sleep() taken, in order
    requests,           \* number of requests sent to a backend
    throttled,          \* number of those answered by a throttling error
    executes,           \* number of execute_tool_calls() invocations
    parsed,             \* the tool-call batches parsed from the responses
    last,               \* what the last request was answered with
    tool_defs_sent,     \* number of requests whose body carried "tools"
    sent,               \* the "messages" of the last request body
    tool_registry,      \* ToolExecutor.tool_registry (names registered)
    called,             \* ToolExecutor method a caller called last
    batch,              \* the requests of that call
    results,            \* the ToolCallResults it returned
    invoked,            \* the handlers it invoked, in order
    snapshot,           \* list a caller got from get_execution_history()
    constructed,        \* client instances the router made, per kind
    dispatched,         \* the router's dispatches, in order
    conc,               \* two invocations running in parallel threads
    logs                \* execution_history of the executors they hold

vars == <<pc, via, backend, path, model_id, max_retries, tools, tool_executor, api_key, bearer_token,
          openrouter_client, bedrock_client, attempt, tool_iterations,
          all_tool_calls, messages, response_body, execution_history, result,
          raised, delays, requests, throttled, executes, parsed, last,
          tool_defs_sent, sent, tool_registry, called, batch, results, invoked, snapshot,
          constructed, dispatched, conc, logs>>

----------------------------------------------------------------------------
(* Bounds of the model *)

MaxRetriesBound == 3
\* tool turns the backend asks of each of two parallel invocations
MaxTurns == 2
\* number of calls a caller makes through one ModelClient
MaxCalls == 3
\* longest batch a caller hands to execute_tool_calls
MaxBatch == 3
\* longest execution_history a caller lets an executor grow to
MaxLog == 3

(* Program constants *)

max_tool_iterations == 10

----------------------------------------------------------------------------
(* Python values *)

None == "None"
\* `response.json()` raises: the error reply has no JSON body
NoJson == [unparseable |-> TRUE]
\* a local that is not bound yet
Unbound == [unbound |-> TRUE]
EmptyDict == [k \in {} |-> None]

Has(d, k) == k \in DOMAIN d
Get(d, k, default) == IF k \in DOMAIN d THEN d[k] ELSE default
Falsy(v) == v = None \/ v = ""

RECURSIVE Pow2(_)
Pow2(n) == IF n <= 0 THEN 1 ELSE 2 * Pow2(n - 1)

StartsWith(s, p) == Len(s) >= Len(p) /\ SubSeq(s, 1, Len(p)) = p
Contains(s, c) == \E i \in 1..Len(s) : s[i] = c

----------------------------------------------------------------------------
(* ModelClient: classification of the model id                             *)

bedrock_prefixes ==
    { <<"u","s",".">>,
      <<"g","l","o","b","a","l",".">>,
      <<"a","n","t","h","r","o","p","i","c",".">>,
      <<"a","m","a","z","o","n",".">>,
      <<"d","e","e","p","s","e","e","k",".">>,
      <<"m","e","t","a",".">>,
      <<"o","p","e","n","a","i",".">> }

_is_openrouter_model_SlashOnly(m) == Contains(m, "/")

_is_openrouter_model(m) ==
    IF Contains(m, "/")
    THEN ~ \E p \in bedrock_prefixes : StartsWith(m, p)
    ELSE FALSE

ModelIds ==
    { <<"o","p","e","n","a","i","/","g","p","t">>,
      <<"u","s",".","c","l","a","u","d","e","/","v","1">> }

----------------------------------------------------------------------------
(* Exceptions and their string forms                                       *)

HTTPError(status, body) == [type |-> "HTTPError", status |-> status, json |-> body]
ClientError(code)       == [type |-> "ClientError", code |-> code]
ValueError              == [type |-> "ValueError"]
OtherError              == [type |-> "ConnectionError"]

Str(e) ==
    CASE e.type = "HTTPError"   -> ToString(e.status) \o " Error"
      [] e.type = "ClientError" -> "An error occurred (" \o e.code \o ")"
      [] OTHER                  -> e.type

IsThrottle(e) ==
    \/ e.type = "HTTPError" /\ e.status = 429
    \/ e.type = "ClientError" /\ e.code = "ThrottlingException"

----------------------------------------------------------------------------
(* Backoff between attempts: wait_time = 2 ** attempt                      *)

\* variants: a constant delay; the exponent taken one too high
wait_time_Constant(a) == 1
wait_time_OneAhead(a) == Pow2(a + 1)

wait_time(a) == Pow2(a)

----------------------------------------------------------------------------
(* Result dictionaries                                                     *)

Pending == [pending |-> TRUE]

MaxRetriesExceeded_NoError(m) == [success |-> FALSE, model_id |-> m]

\* the return statement after the attempt loop (plain paths)
MaxRetriesExceeded(m) ==
    [success |-> FALSE, error |-> "Max retries exceeded", model_id |-> m]

\* the return statement after the attempt loop (tool path)
ToolMaxRetriesExceeded(m, calls) ==
    [success |-> FALSE, error |-> "Max retries exceeded", model_id |-> m,
     tool_calls |-> calls]

----------------------------------------------------------------------------
(* JSON text <-> value, for the texts that occur in the model              *)

json_loads_ok(text) == text \in {"{}", "{\"q\": 1}", "{\n  \"label\": \"x\"\n}"}
json_loads(text) ==
    CASE text = "{\"q\": 1}"                -> [q |-> 1]
      [] text = "{\n  \"label\": \"x\"\n}" -> [label |-> "x"]
      [] OTHER                              -> EmptyDict

\* a Python object json.dumps has no encoding for
Datetime == "datetime.datetime(2024, 1, 1, 0, 0)"

\* json.dumps raises TypeError on a value that holds such an object
json_dumps_ok(value) == \A k \in DOMAIN value : value[k] # Datetime

\* variant: every mapping is written as the empty object
json_dumps_Empty(value) == "{}"

json_dumps(value) ==
    CASE value = [label |-> "x"] -> "{\n  \"label\": \"x\"\n}"
      [] OTHER                   -> "{}"

----------------------------------------------------------------------------
(* Tool registry and tool handlers                                         *)

RegisteredTools == {"lookup", "count", "boom", "stamp"}

tool_registry_get(name) == IF name \in tool_registry THEN name ELSE None

\* Tool.execute(parameters): the handler either returns a value or raises
tool_execute(tool, parameters) ==
    CASE tool = "lookup" -> [raises |-> FALSE, kind |-> "dict",   value |-> [label |-> "x"]]
      [] tool = "count"  -> [raises |-> FALSE, kind |-> "scalar", value |-> 3]
      [] tool = "stamp"  -> [raises |-> FALSE, kind |-> "dict",   value |-> [at |-> Datetime]]
      [] OTHER           -> [raises |-> TRUE,  cause |-> "boom failed"]

----------------------------------------------------------------------------
(* ToolExecutor                                                            *)

\* `tool_use_id or "unknown"`
ToolUseIdOrUnknown_AsGiven(tool_use_id) == tool_use_id

ToolUseIdOrUnknown(tool_use_id) ==
    IF Falsy(tool_use_id) THEN "unknown" ELSE tool_use_id

\* the ToolCallResult of a call that did not succeed
ErrorResult(tool_use_id, error_msg) ==
    [toolUseId |-> ToolUseIdOrUnknown(tool_use_id), status |-> "error",
     content |-> <<[text |-> error_msg]>>]

NotFoundMessage(tool_name) == "Tool '" \o tool_name \o "' not found in registry"

FailureMessage_NoCause(tool_name, cause) == "Error executing tool '" \o tool_name \o "'"

\* f"Error executing tool '{tool_name}': {str(e)}"
FailureMessage(tool_name, cause) ==
    "Error executing tool '" \o tool_name \o "': " \o cause

SuccessRecord_NoResult(tool_name, tool_use_id, parameters, value, result_text) ==
    [tool_name |-> tool_name, tool_use_id |-> tool_use_id,
     parameters |-> parameters, status |-> "success"]

\* the ExecutionRecord of a handler call that returned: it holds the value,
\* not result_text

SuccessRecord(tool_name, tool_use_id, parameters, value, result_text) ==
    [tool_name |-> tool_name, tool_use_id |-> tool_use_id,
     parameters |-> parameters, status |-> "success", result |-> value]

\* the returned ToolCallResult and the records appended to execution_history
execute_tool_call(tool_call) ==
    LET tool_name   == Get(tool_call, "name", None)
        tool_use_id == Get(tool_call, "toolUseId", None)
        parameters  == Get(tool_call, "input", EmptyDict)
    IN  IF Falsy(tool_name)
        THEN [ret |-> ErrorResult(tool_use_id, "Tool name missing from tool call"),
              log |-> <<>>, invoked |-> <<>>]
        ELSE LET tool == tool_registry_get(tool_name) IN
             IF tool = None
             THEN LET error_msg == NotFoundMessage(tool_name) IN
                  [ret |-> ErrorResult(tool_use_id, error_msg),
                   log |-> <<[tool_name |-> tool_name, tool_use_id |-> tool_use_id,
                              status |-> "error", error |-> error_msg]>>,
                   invoked |-> <<>>]
             ELSE LET handled == tool_execute(tool, parameters)
                      \* the try block also holds json.dumps(result, indent=2)
                      out == IF ~ handled.raises /\ handled.kind = "dict"
                                /\ ~ json_dumps_ok(handled.value)
                             THEN [raises |-> TRUE, cause |->
                                   "Object of type datetime is not JSON serializable"]
                             ELSE handled
                  IN
                  IF ~ out.raises
                  THEN LET result_text == IF out.kind = "dict"
                                          THEN json_dumps(out.value)
                                          ELSE ToString(out.value) IN
                       [ret |-> [toolUseId |-> ToolUseIdOrUnknown(tool_use_id),
                                 status |-> "success",
                                 content |-> <<[text |-> result_text]>>],
                        log |-> <<SuccessRecord(tool_name, tool_use_id, parameters,
                                                out.value, result_text)>>,
                        invoked |-> <<tool>>]
                  ELSE LET error_msg == FailureMessage(tool_name, out.cause) IN
                       [ret |-> ErrorResult(tool_use_id, error_msg),
                        log |-> <<[tool_name |-> tool_name, tool_use_id |-> tool_use_id,
                                   parameters |-> parameters, status |-> "error",
                                   error |-> error_msg]>>,
                        invoked |-> <<tool>>]

\* variant: the requests after the first are executed before it
RECURSIVE execute_tool_calls_LastFirst(_, _)
execute_tool_calls_LastFirst(tool_calls, history) ==
    IF tool_calls = <<>>
    THEN [results |-> <<>>, history |-> history, invoked |-> <<>>]
    ELSE LET rest == execute_tool_calls_LastFirst(Tail(tool_calls), history)
             one  == execute_tool_call(Head(tool_calls))
         IN  [results |-> <<one.ret>> \o rest.results,
              history |-> rest.history \o one.log,
              invoked |-> rest.invoked \o one.invoked]

execute_tool_calls_OnlyFirst(tool_calls, history) ==
    IF tool_calls = <<>>
    THEN [results |-> <<>>, history |-> history, invoked |-> <<>>]
    ELSE LET one == execute_tool_call(Head(tool_calls))
         IN  [results |-> <<one.ret>>, history |-> history \o one.log,
              invoked |-> one.invoked]

\* results of the batch, and the history after it
RECURSIVE execute_tool_calls(_, _)
execute_tool_calls(tool_calls, history) ==
    IF tool_calls = <<>>
    THEN [results |-> <<>>, history |-> history, invoked |-> <<>>]
    ELSE LET one  == execute_tool_call(Head(tool_calls))
             rest == execute_tool_calls(Tail(tool_calls), history \o one.log)
         IN  [results |-> <<one.ret>> \o rest.results, history |-> rest.history,
              invoked |-> one.invoked \o rest.invoked]

\* a list object and what it holds: obj tells whether the list is the
\* executor's own ("log") or a new one ("copy")
get_execution_history_Alias(history) == [obj |-> "log", items |-> history]

\* `return self.execution_history.copy()`
get_execution_history(history) == [obj |-> "copy", items |-> history]

clear_history_Keeps(history) == history

\* `self.execution_history.clear()`
clear_history(history) == <<>>

----------------------------------------------------------------------------
(* OpenRouter: response bodies the backend may answer with                 *)

Usage3 == [prompt_tokens |-> 1, completion_tokens |-> 2, total_tokens |-> 3]

RawA1 == [id |-> "c1", function |-> [name |-> "lookup", arguments |-> "{\"q\": 1}"]]
RawB1 == [function |-> [name |-> "ghost", arguments |-> "not json"]]
RawB2 == [id |-> "c2", function |-> [name |-> "boom", arguments |-> "{}"]]
RawB3 == [id |-> "c3", function |-> [arguments |-> "{}"]]

\* a terminal answer
BodyFinal == [choices |-> <<[message |-> [content |-> "answer"]]>>, usage |-> Usage3]
\* a reply without any of the expected fields
BodyBare  == [id |-> "gen-1"]
\* one tool call, no text
BodyToolsA == [choices |-> <<[message |-> [content |-> None, tool_calls |-> <<RawA1>>]]>>,
               usage |-> Usage3]
\* tool calls in two choices, with text in the first
BodyToolsB == [choices |-> <<[message |-> [content |-> "partial", tool_calls |-> <<RawB1>>]],
                             [message |-> [content |-> None, tool_calls |-> <<RawB2, RawB3>>]]>>]

OpenRouterBodies == {BodyFinal, BodyBare, BodyToolsA, BodyToolsB}

ErrorBodies == {NoJson, [error |-> [message |-> "upstream says no"]]}

\* answers to a request of the plain path: no tool definition was sent, so no
\* tool call is requested; the error reply's body is read
OpenRouterResponses ==
    {[kind |-> "ok", body |-> b] : b \in {BodyFinal, BodyBare}}
    \cup {[kind |-> "raise", exc |-> HTTPError(st, eb)] : st \in {429, 500}, eb \in ErrorBodies}
    \cup {[kind |-> "raise", exc |-> OtherError]}

\* answers to a request of the tool path: the error reply's body is not read
OpenRouterToolResponses ==
    {[kind |-> "ok", body |-> b] : b \in OpenRouterBodies}
    \cup {[kind |-> "raise", exc |-> HTTPError(st, NoJson)] : st \in {429, 500}}
    \cup {[kind |-> "raise", exc |-> OtherError]}

----------------------------------------------------------------------------
(* OpenRouterClient._extract_tool_calls_from_response                      *)

RECURSIVE ExtractFromMessage(_, _)
ExtractFromMessage(raw_calls, tool_calls) ==
    IF raw_calls = <<>> THEN tool_calls
    ELSE LET tool_call == Head(raw_calls)
             function  == Get(tool_call, "function", EmptyDict)
             text      == Get(function, "arguments", "{}")
             arguments == IF json_loads_ok(text) THEN json_loads(text) ELSE EmptyDict
             id        == Get(tool_call, "id", None)
             entry     == [toolUseId |-> IF Falsy(id)
                                         THEN "call_" \o ToString(Len(tool_calls))
                                         ELSE id,
                           name      |-> Get(function, "name", None),
                           input     |-> arguments]
         IN  ExtractFromMessage(Tail(raw_calls), Append(tool_calls, entry))

RECURSIVE ExtractFromChoices(_, _)
ExtractFromChoices(choices, tool_calls) ==
    IF choices = <<>> THEN tool_calls
    ELSE LET message == Get(Head(choices), "message", EmptyDict)
             found   == IF Has(message, "tool_calls")
                        THEN ExtractFromMessage(message["tool_calls"], tool_calls)
                        ELSE tool_calls
         IN  ExtractFromChoices(Tail(choices), found)

_extract_tool_calls_from_response(body) ==
    IF Has(body, "choices") THEN ExtractFromChoices(body["choices"], <<>>) ELSE <<>>

----------------------------------------------------------------------------
(* OpenRouterClient: what is read out of a response body                   *)

\* variant: the usage block is not read
OpenRouterUsage_Zero(body) ==
    [inputTokens |-> 0, outputTokens |-> 0, totalTokens |-> 0]

OpenRouterUsage(body) ==
    LET usage == Get(body, "usage", EmptyDict)
    IN  [inputTokens  |-> Get(usage, "prompt_tokens", 0),
         outputTokens |-> Get(usage, "completion_tokens", 0),
         totalTokens  |-> Get(usage, "total_tokens", 0)]

\* plain path: content = message['content'] whenever the key is there
PlainContent(body) ==
    IF Has(body, "choices") /\ Len(body["choices"]) > 0
    THEN LET message == Get(body["choices"][1], "message", EmptyDict)
         IN  IF Has(message, "content") THEN message["content"] ELSE ""
    ELSE ""

\* variant: the text of the response is dropped
ToolContent_Empty(body) == ""

\* tool path: content = message['content'] only when it is truthy
ToolContent(body) ==
    IF Has(body, "choices") /\ Len(body["choices"]) > 0
    THEN LET message == Get(body["choices"][1], "message", EmptyDict)
         IN  IF Has(message, "content") /\ ~ Falsy(message["content"])
             THEN message["content"] ELSE ""
    ELSE ""

\* variant: the loop index is reported as it is
PlainSuccess_ZeroBased(m, body, a) ==
    [success |-> TRUE, content |-> PlainContent(body), model_id |-> m,
     usage |-> OpenRouterUsage(body), attempt |-> a, raw_response |-> body]

PlainSuccess(m, body, a) ==
    [success |-> TRUE, content |-> PlainContent(body), model_id |-> m,
     usage |-> OpenRouterUsage(body), attempt |-> a + 1, raw_response |-> body]

\* variant: the history is left out of the result
ToolSuccess_EmptyHistory(m, body, a, calls, history) ==
    [success |-> TRUE, content |-> ToolContent(body), model_id |-> m,
     usage |-> OpenRouterUsage(body), attempt |-> a + 1, raw_response |-> body,
     tool_calls |-> calls, tool_execution_history |-> <<>>]

ToolSuccess(m, body, a, calls, history) ==
    [success |-> TRUE, content |-> ToolContent(body), model_id |-> m,
     usage |-> OpenRouterUsage(body), attempt |-> a + 1, raw_response |-> body,
     tool_calls |-> calls,
     tool_execution_history |-> get_execution_history(history).items]

\* variant: an HTTP failure is reported as exhaustion of the retries
PlainHTTPFailure_Exhausted(m, e, a) ==
    [success |-> FALSE, error |-> "Max retries exceeded", model_id |-> m]

\* plain path, except HTTPError, else branch
PlainHTTPFailure(m, e, a) ==
    LET error_body    == e.json
        error_message == IF error_body = NoJson THEN Str(e)
                         ELSE Get(Get(error_body, "error", EmptyDict), "message", Str(e))
    IN  [success |-> FALSE, error |-> error_message,
         error_code |-> "HTTP_" \o ToString(e.status), model_id |-> m, attempt |-> a + 1]

\* plain path, except Exception
PlainFailure(m, e, a) ==
    [success |-> FALSE, error |-> Str(e), model_id |-> m, attempt |-> a + 1]

\* tool path, except HTTPError, else branch
ToolHTTPFailure(m, e, a, calls) ==
    [success |-> FALSE, error |-> Str(e), error_code |-> "HTTP_" \o ToString(e.status),
     model_id |-> m, attempt |-> a + 1, tool_calls |-> calls]

\* tool path, except Exception
ToolFailure(m, e, a, calls) ==
    [success |-> FALSE, error |-> Str(e), model_id |-> m, attempt |-> a + 1,
     tool_calls |-> calls]

\* variant: the ceiling compared with <=
ToolLoopContinues_Inclusive(iterations) == iterations <= max_tool_iterations

\* `while tool_iterations < max_tool_iterations`
ToolLoopContinues(iterations) == iterations < max_tool_iterations

\* variant: the accumulator is replaced by the calls of the last response
Extend_Replace(all, tool_calls) == tool_calls

\* all_tool_calls.extend(tool_calls)
Extend(all, tool_calls) == all \o tool_calls

\* variant: the last attempt is retried too
OpenRouterRetries_NoLastCheck(e, a, mr) == e.status = 429

\* the condition under which an HTTPError is retried
OpenRouterRetries(e, a, mr) == e.status = 429 /\ a < mr - 1

----------------------------------------------------------------------------
(* OpenRouter conversation                                                 *)

InitialMessages ==
    << [role |-> "system", content |-> "instructions"],
       [role |-> "user",   content |-> "prompt"] >>

AssistantMessage(body) ==
    [role |-> "assistant", content |-> None,
     tool_calls |-> IF /\ Has(body, "choices") /\ Len(body["choices"]) > 0
                       /\ Has(body["choices"][1], "message")
                       /\ Has(body["choices"][1]["message"], "tool_calls")
                    THEN body["choices"][1]["message"]["tool_calls"]
                    ELSE <<>>]

RECURSIVE JoinText(_)
JoinText(content) ==
    IF content = <<>> THEN ""
    ELSE Get(Head(content), "text", "") \o JoinText(Tail(content))

\* variant: the tool messages are appended last result first
ToolMessages_Reversed(tool_results) ==
    [i \in 1..Len(tool_results) |->
        LET r == tool_results[Len(tool_results) + 1 - i] IN
        [role |-> "tool", tool_call_id |-> Get(r, "toolUseId", None),
         content |-> JoinText(Get(r, "content", <<>>))]]

ToolMessages(tool_results) ==
    [i \in 1..Len(tool_results) |->
        [role |-> "tool", tool_call_id |-> Get(tool_results[i], "toolUseId", None),
         content |-> JoinText(Get(tool_results[i], "content", <<>>))]]

----------------------------------------------------------------------------
(* Bedrock: response bodies and what is read out of them                   *)

BedrockAnthropic == [content |-> <<[text |-> "answer"]>>,
                     usage |-> [input_tokens |-> 1, output_tokens |-> 2]]
BedrockOpenAI    == [choices |-> <<[message |-> [content |-> "answer"]]>>]
BedrockText      == [output |-> "answer"]
BedrockBare      == [id |-> "msg-1"]
BedrockUnknownOp == [Output |-> ("__type" :> "UnknownOperationException")]

BedrockBodies == {BedrockAnthropic, BedrockOpenAI, BedrockText, BedrockBare}

BearerResponses ==
    {[kind |-> "ok", body |-> b] : b \in BedrockBodies \cup {BedrockUnknownOp}}
    \cup {[kind |-> "raise", exc |-> HTTPError(st, NoJson)] : st \in {429, 500}}
    \cup {[kind |-> "raise", exc |-> ValueError], [kind |-> "raise", exc |-> OtherError]}

Boto3Responses ==
    {[kind |-> "ok", body |-> b] : b \in BedrockBodies}
    \cup {[kind |-> "raise", exc |-> ClientError(c)] :
              c \in {"ThrottlingException", "ValidationException"}}
    \cup {[kind |-> "raise", exc |-> OtherError]}

\* the check made on a bearer-token reply before it is accepted
IsUnknownOperation(body) ==
    /\ Has(body, "Output")
    /\ Get(body["Output"], "__type", "") = "UnknownOperationException"

BedrockContent(body) ==
    LET anthropic == IF Has(body, "content") /\ body["content"] # <<>>
                     THEN Get(body["content"][1], "text", "")
                     ELSE ""
        openai    == IF Falsy(anthropic) /\ Has(body, "choices") /\ body["choices"] # <<>>
                     THEN LET choice == body["choices"][1] IN
                          IF Has(choice, "message")
                          THEN Get(choice["message"], "content", "")
                          ELSE IF Has(choice, "text") THEN choice["text"] ELSE anthropic
                     ELSE anthropic
    IN  IF Falsy(openai) THEN Get(body, "text", Get(body, "output", "")) ELSE openai

\* variant: the attempt after the current one is reported
BedrockSuccess_NextAttempt(m, body, a) ==
    [success |-> TRUE, content |-> BedrockContent(body), model_id |-> m,
     usage |-> Get(body, "usage", EmptyDict), attempt |-> a + 2, raw_response |-> body]

BedrockSuccess(m, body, a) ==
    [success |-> TRUE, content |-> BedrockContent(body), model_id |-> m,
     usage |-> Get(body, "usage", EmptyDict), attempt |-> a + 1, raw_response |-> body]

\* variant: throttling is retried on the last attempt too
BedrockClientErrorRetries_Always(e, a, mr) == e.code = "ThrottlingException"

\* except ClientError
BedrockClientErrorRetries(e, a, mr) == e.code = "ThrottlingException" /\ a < mr - 1

BedrockClientFailure(m, e, a) ==
    [success |-> FALSE, error |-> Str(e), error_code |-> e.code, model_id |-> m,
     attempt |-> a + 1]

\* except requests.exceptions.HTTPError (of the attempt, not of the bearer request)
BedrockHTTPRetries(e, a, mr) == e.status = 429 /\ a < mr - 1

BedrockHTTPFailure(m, e, a) ==
    LET error_body    == e.json
        error_code    == IF error_body = NoJson THEN None ELSE Get(error_body, "__type", "")
        error_message == IF error_body = NoJson THEN Str(e)
                         ELSE Get(error_body, "message", Get(error_body, "error", Str(e)))
    IN  [success |-> FALSE, error |-> error_message,
         error_code |-> IF Falsy(error_code) THEN "HTTP_" \o ToString(e.status)
                        ELSE error_code,
         model_id |-> m, attempt |-> a + 1]

\* except Exception
BedrockFailure(m, e, a) ==
    [success |-> FALSE, error |-> Str(e), model_id |-> m, attempt |-> a + 1]

\* which exceptions the inner handler of the bearer request catches
BearerFallsBack(e) == e.type \in {"HTTPError", "ValueError"}

----------------------------------------------------------------------------
(* The state machine                                                       *)

ToolLists     == {<<>>, <<"lookup", "count", "boom">>}
ToolExecutors == {None, "executor"}
\* what the configuration holds for a key or token
Credentials   == {None, "secret"}
RetryCounts   == 0..MaxRetriesBound

config  == <<api_key, bearer_token>>
clients == <<openrouter_client, bedrock_client>>
args    == <<via, backend, path, model_id, max_retries, tools, tool_executor>>
toolvars == <<tool_iterations, all_tool_calls, messages, execution_history,
              executes, parsed>>
counters == <<delays, requests, throttled, last, tool_defs_sent, sent>>
\* state of a caller that uses a ToolExecutor by itself
caller  == <<tool_registry, called, batch, results, invoked, snapshot>>
routing == <<constructed, dispatched>>
threads == <<conc, logs>>

NoSnapshot == [obj |-> "none", items |-> <<>>]
NoThreads  == [t \in {} |-> None]

Init ==
    /\ pc = "idle"
    /\ via = None /\ backend = None /\ path = None
    /\ model_id = <<>> /\ max_retries = 0 /\ tools = <<>> /\ tool_executor = None
    /\ api_key = None /\ bearer_token = None
    /\ openrouter_client = None /\ bedrock_client = None
    /\ attempt = 0 /\ tool_iterations = 0
    /\ all_tool_calls = <<>> /\ messages = <<>>
    /\ response_body = Unbound
    /\ execution_history = <<>>
    /\ result = Pending /\ raised = None
    /\ delays = <<>> /\ requests = 0 /\ throttled = 0 /\ executes = 0
    /\ parsed = <<>> /\ last = [kind |-> "none"]
    /\ tool_defs_sent = 0 /\ sent = <<>>
    /\ tool_registry = RegisteredTools
    /\ called = None /\ batch = <<>> /\ results = <<>> /\ invoked = <<>>
    /\ snapshot = NoSnapshot
    /\ constructed = [openrouter |-> 0, bedrock |-> 0]
    /\ dispatched = <<>>
    /\ conc = NoThreads /\ logs = NoThreads

Return(r) == pc' = "done" /\ result' = r
Raise(e)  == pc' = "raised" /\ raised' = e /\ result' = result

\* `if tools and tool_executor`
UsesTools(tl, te) == tl # <<>> /\ te # None

\* where the first request of an attempt is sent from
RequestPc(b, p, token) ==
    CASE b = "openrouter" /\ p = "tools" -> "openrouter_tools"
      [] b = "openrouter"                -> "openrouter_plain"
      [] token # None                    -> "bedrock_bearer"
      [] OTHER                           -> "bedrock_boto3"

\* the statement after the attempt loop
AfterLoop(b, p, m, calls) ==
    IF b = "openrouter" /\ p = "tools"
    THEN ToolMaxRetriesExceeded(m, calls)
    ELSE MaxRetriesExceeded(m)

\* client.invoke_model up to the first request: locals are set and
\* `for attempt in range(max_retries)` is entered or skipped
Enter(b, m, mr, tl, te, cred) ==
    LET p == IF b = "openrouter" /\ UsesTools(tl, te) THEN "tools" ELSE "plain" IN
    /\ backend' = b /\ path' = p
    /\ model_id' = m /\ max_retries' = mr /\ tools' = tl /\ tool_executor' = te
    /\ attempt' = 0 /\ tool_iterations' = 0 /\ all_tool_calls' = <<>>
    /\ messages' = IF b = "openrouter" THEN InitialMessages
                   ELSE <<[role |-> "user", content |-> "prompt"]>>
    /\ raised' = raised
    /\ IF 0 < mr
       THEN pc' = RequestPc(b, p, cred) /\ result' = result
       ELSE Return(AfterLoop(b, p, m, <<>>))
    /\ UNCHANGED <<response_body, execution_history, executes, parsed, counters,
                   caller, threads>>

\* OpenRouterClient.__init__ raises when the configuration has no key
OpenRouterInitRaises(cred) == cred = None

\* the instance a constructor call returns: the n-th of its kind
NewInstance(kind, n) == kind \o "#" \o ToString(n)

_get_client_Always(cached, kind, n) == NewInstance(kind, n + 1)

\* _get_openrouter_client / _get_bedrock_client, when the constructor returns;
\* n instances of the kind were made before
_get_client(cached, kind, n) ==
    IF cached = None THEN NewInstance(kind, n + 1) ELSE cached

Dispatch(m, b, client) == [model_id |-> m, backend |-> b, client |-> client]

\* the instances made so far, after a call got `client` where `cached` was
Made(kind, cached, client) ==
    IF client = cached THEN constructed
    ELSE [constructed EXCEPT ![kind] = @ + 1]

\* ModelClient.invoke_model; cred is what the configuration holds for the
\* backend the call is routed to
RouterInvoke(m, mr, tl, te, cred) ==
    /\ pc = "idle"
    /\ via' = "router"
    /\ UNCHANGED <<caller, threads>>
    /\ IF _is_openrouter_model(m)
       THEN \* _get_openrouter_client, then client.invoke_model
            /\ UNCHANGED <<bedrock_client, bearer_token>>
            /\ api_key' = IF openrouter_client = None THEN cred ELSE api_key
            /\ IF openrouter_client = None /\ OpenRouterInitRaises(cred)
               THEN /\ Raise("ValueError")
                    /\ constructed' = constructed
                    /\ dispatched' = Append(dispatched, Dispatch(m, "openrouter", None))
                    /\ model_id' = m /\ max_retries' = mr /\ tools' = tl
                    /\ tool_executor' = te /\ backend' = "openrouter"
                    /\ UNCHANGED <<path, openrouter_client, attempt, toolvars,
                                   response_body, counters>>
               ELSE LET client == _get_client(openrouter_client, "OpenRouterClient",
                                              constructed.openrouter) IN
                    /\ openrouter_client' = client
                    /\ constructed' = Made("openrouter", openrouter_client, client)
                    /\ dispatched' = Append(dispatched, Dispatch(m, "openrouter", client))
                    /\ Enter("openrouter", m, mr, tl, te,
                             IF openrouter_client = None THEN cred ELSE api_key)
       ELSE \* _get_bedrock_client, then client.invoke_model(..., thinking=,
            \* tools=, tool_executor=): BedrockClient.invoke_model has none of
            \* these three parameters
            LET client == _get_client(bedrock_client, "BedrockClient",
                                      constructed.bedrock) IN
            /\ bedrock_client' = client
            /\ constructed' = Made("bedrock", bedrock_client, client)
            /\ dispatched' = Append(dispatched, Dispatch(m, "bedrock", client))
            /\ bearer_token' = IF bedrock_client = None THEN cred ELSE bearer_token
            /\ UNCHANGED <<openrouter_client, api_key>>
            /\ Raise("TypeError")
            /\ model_id' = m /\ max_retries' = mr /\ tools' = tl
            /\ tool_executor' = te /\ backend' = "bedrock"
            /\ UNCHANGED <<path, attempt, toolvars, response_body, counters>>

\* a caller that has constructed a backend client from a configuration
\* holding cred, and calls its invoke_model with a model id of that backend
DirectInvoke(b, m, mr, tl, te, cred) ==
    /\ pc = "idle"
    /\ _is_openrouter_model(m) <=> b = "openrouter"
    /\ b = "openrouter" => ~ OpenRouterInitRaises(cred)
    /\ b = "bedrock" => tl = <<>> /\ te = None
    /\ via' = "direct"
    /\ IF b = "openrouter"
       THEN api_key' = cred /\ UNCHANGED bearer_token
       ELSE bearer_token' = cred /\ UNCHANGED api_key
    /\ UNCHANGED <<clients, routing>>
    /\ Enter(b, m, mr, tl, te, cred)

\* the keys of the request body each path builds
RequestBodyKeys(b, p) ==
    CASE b = "openrouter" /\ p = "tools" ->
            {"model", "messages", "max_tokens", "temperature", "tools"}
      [] b = "openrouter" ->
            {"model", "messages", "max_tokens", "temperature"}
      [] OTHER ->
            {"anthropic_version", "max_tokens", "temperature", "messages", "system"}

\* variant: a request carries the instructions and the prompt only
RequestMessages_FromStart(conversation) ==
    IF Len(conversation) > 2 THEN SubSeq(conversation, 1, 2) ELSE conversation

\* `"messages": messages` of the request body: the conversation as it is
\* when the request is built
RequestMessages(conversation) == conversation

\* bookkeeping of one request and its answer
Answered(resp) ==
    /\ requests' = requests + 1
    /\ sent' = RequestMessages(messages)
    /\ tool_defs_sent' = IF "tools" \in RequestBodyKeys(backend, path)
                         THEN tool_defs_sent + 1 ELSE tool_defs_sent
    /\ throttled' = IF resp.kind = "raise" /\ IsThrottle(resp.exc)
                    THEN throttled + 1 ELSE throttled
    /\ last' = IF resp.kind = "ok" THEN [kind |-> "ok"]
               ELSE [kind |-> "raise", type |-> resp.exc.type,
                     throttle |-> IsThrottle(resp.exc)]

\* time.sleep(wait_time); continue
SleepAndContinue(next_pc) ==
    /\ delays' = Append(delays, wait_time(attempt))
    /\ attempt' = attempt + 1
    /\ IF attempt + 1 < max_retries
       THEN pc' = next_pc /\ result' = result
       ELSE Return(AfterLoop(backend, path, model_id, all_tool_calls))

\* OpenRouterClient.invoke_model, one attempt of the plain path
OpenRouterPlainRequest(resp) ==
    /\ pc = "openrouter_plain"
    /\ Answered(resp)
    /\ IF resp.kind = "ok"
       THEN /\ response_body' = resp.body
            /\ Return(PlainSuccess(model_id, resp.body, attempt))
            /\ UNCHANGED <<attempt, delays>>
       ELSE /\ response_body' = response_body
            /\ IF resp.exc.type = "HTTPError"
               THEN IF OpenRouterRetries(resp.exc, attempt, max_retries)
                    THEN SleepAndContinue("openrouter_plain")
                    ELSE /\ Return(PlainHTTPFailure(model_id, resp.exc, attempt))
                         /\ UNCHANGED <<attempt, delays>>
               ELSE /\ Return(PlainFailure(model_id, resp.exc, attempt))
                    /\ UNCHANGED <<attempt, delays>>
    /\ UNCHANGED <<args, config, clients, toolvars, raised, caller, routing, threads>>

\* OpenRouterClient._invoke_model_with_tools, one turn of the while loop
\* (request, tool execution, conversation update) and what follows it
OpenRouterToolRequest(resp) ==
    /\ pc = "openrouter_tools"
    /\ Answered(resp)
    /\ IF resp.kind = "ok"
       THEN LET body       == resp.body
                tool_calls == _extract_tool_calls_from_response(body)
            IN  /\ response_body' = body
                /\ UNCHANGED <<attempt, delays>>
                /\ IF tool_calls = <<>>
                   THEN \* break: the final response
                        /\ Return(ToolSuccess(model_id, body, attempt, all_tool_calls,
                                              execution_history))
                        /\ UNCHANGED toolvars
                   ELSE LET ex    == execute_tool_calls(tool_calls, execution_history)
                            calls == Extend(all_tool_calls, tool_calls)
                        IN  /\ execution_history' = ex.history
                            /\ executes' = executes + 1
                            /\ parsed' = Append(parsed, tool_calls)
                            /\ all_tool_calls' = calls
                            /\ messages' = messages \o <<AssistantMessage(body)>>
                                                    \o ToolMessages(ex.results)
                            /\ tool_iterations' = tool_iterations + 1
                            /\ IF ToolLoopContinues(tool_iterations + 1)
                               THEN pc' = "openrouter_tools" /\ result' = result
                               ELSE Return(ToolSuccess(model_id, body, attempt, calls,
                                                       ex.history))
       ELSE /\ response_body' = response_body
            /\ UNCHANGED toolvars
            /\ IF resp.exc.type = "HTTPError"
               THEN IF OpenRouterRetries(resp.exc, attempt, max_retries)
                    THEN SleepAndContinue("openrouter_tools")
                    ELSE /\ Return(ToolHTTPFailure(model_id, resp.exc, attempt,
                                                   all_tool_calls))
                         /\ UNCHANGED <<attempt, delays>>
               ELSE /\ Return(ToolFailure(model_id, resp.exc, attempt, all_tool_calls))
                    /\ UNCHANGED <<attempt, delays>>
    /\ UNCHANGED <<args, config, clients, raised, caller, routing, threads>>

\* BedrockClient.invoke_model: the except clauses of the attempt
BedrockExcept(e) ==
    CASE e.type = "ClientError" ->
            IF BedrockClientErrorRetries(e, attempt, max_retries)
            THEN SleepAndContinue(RequestPc("bedrock", "plain", bearer_token))
            ELSE /\ Return(BedrockClientFailure(model_id, e, attempt))
                 /\ UNCHANGED <<attempt, delays>>
      [] e.type = "HTTPError" ->
            IF BedrockHTTPRetries(e, attempt, max_retries)
            THEN SleepAndContinue(RequestPc("bedrock", "plain", bearer_token))
            ELSE /\ Return(BedrockHTTPFailure(model_id, e, attempt))
                 /\ UNCHANGED <<attempt, delays>>
      [] OTHER ->
            /\ Return(BedrockFailure(model_id, e, attempt))
            /\ UNCHANGED <<attempt, delays>>

\* BedrockClient.invoke_model: the bearer-token request of an attempt
BedrockBearerRequest(resp) ==
    /\ pc = "bedrock_bearer"
    /\ Answered(resp)
    /\ IF resp.kind = "ok" /\ ~ IsUnknownOperation(resp.body)
       THEN /\ response_body' = resp.body
            /\ Return(BedrockSuccess(model_id, resp.body, attempt))
            /\ UNCHANGED <<attempt, delays>>
       ELSE LET e == IF resp.kind = "ok" THEN ValueError ELSE resp.exc IN
            /\ response_body' = IF resp.kind = "ok" THEN resp.body ELSE response_body
            /\ IF BearerFallsBack(e)
               THEN \* fall back to boto3 within the same attempt
                    /\ pc' = "bedrock_boto3" /\ result' = result
                    /\ UNCHANGED <<attempt, delays>>
               ELSE BedrockExcept(e)
    /\ UNCHANGED <<args, config, clients, toolvars, raised, caller, routing, threads>>

\* BedrockClient.invoke_model: the boto3 request of an attempt
BedrockBoto3Request(resp) ==
    /\ pc = "bedrock_boto3"
    /\ Answered(resp)
    /\ IF resp.kind = "ok"
       THEN /\ response_body' = resp.body
            /\ Return(BedrockSuccess(model_id, resp.body, attempt))
            /\ UNCHANGED <<attempt, delays>>
       ELSE /\ response_body' = response_body
            /\ BedrockExcept(resp.exc)
    /\ UNCHANGED <<args, config, clients, toolvars, raised, caller, routing, threads>>

Next ==
    \/ \E m \in ModelIds, mr \in RetryCounts, tl \in ToolLists, te \in ToolExecutors,
          cred \in Credentials :
          RouterInvoke(m, mr, tl, te, cred)
    \/ \E b \in {"openrouter", "bedrock"}, m \in ModelIds, mr \in RetryCounts,
          tl \in ToolLists, te \in ToolExecutors, cred \in Credentials :
          DirectInvoke(b, m, mr, tl, te, cred)
    \/ \E resp \in OpenRouterResponses : OpenRouterPlainRequest(resp)
    \/ \E resp \in OpenRouterToolResponses : OpenRouterToolRequest(resp)
    \/ \E resp \in BearerResponses : BedrockBearerRequest(resp)
    \/ \E resp \in Boto3Responses : BedrockBoto3Request(resp)

Spec == Init /\ [][Next]_vars

\* an invocation in progress is not suspended forever: the request it waits
\* for is answered (requests have a timeout) and the sleep ends
FairSpec == Spec /\ WF_vars(Next)

----------------------------------------------------------------------------
(* A ToolExecutor used by a caller: batches are executed, the history is   *)
(* read and cleared, and the list a read returned is changed by the caller *)

ReqLookup == [name |-> "lookup", toolUseId |-> "c1", input |-> [q |-> 1]]
ReqCount  == [name |-> "count", toolUseId |-> "c5"]
ReqStamp  == [name |-> "stamp", toolUseId |-> "c6", input |-> EmptyDict]
ReqBoom   == [name |-> "boom", toolUseId |-> "c2", input |-> EmptyDict]
ReqGhost  == [name |-> "ghost", toolUseId |-> "c3", input |-> EmptyDict]
ReqNoName == [toolUseId |-> "c4", input |-> EmptyDict]
ReqNoId   == [name |-> "ghost"]
ReqBare   == EmptyDict
\* requests of a batch
ToolCallRequests == {ReqLookup, ReqBoom, ReqGhost, ReqNoName, ReqNoId}
\* requests executed one by one
SingleRequests == ToolCallRequests \cup {ReqCount, ReqStamp, ReqBare}

SeqsUpTo(S, n) == UNION {[1..k -> S] : k \in 0..n}
Batches == SeqsUpTo(ToolCallRequests, MaxBatch)

\* everything of an invocation through a client
invocation == <<pc, args, config, clients, attempt, tool_iterations, all_tool_calls,
                messages, response_body, result, raised, executes, parsed, counters>>

\* what a caller sees in the list it holds once the log is `log`
Seen(snap, log) == IF snap.obj = "log" THEN [snap EXCEPT !.items = log] ELSE snap

CallExecuteToolCall(tool_call) ==
    LET one == execute_tool_call(tool_call)
        log == execution_history \o one.log
    IN  /\ called' = "execute_tool_call"
        /\ batch' = <<tool_call>> /\ results' = <<one.ret>>
        /\ invoked' = one.invoked
        /\ execution_history' = log
        /\ snapshot' = Seen(snapshot, log)
        /\ UNCHANGED <<tool_registry, invocation, routing, threads>>

CallExecuteToolCalls(tool_calls) ==
    LET ex == execute_tool_calls(tool_calls, execution_history)
    IN  /\ called' = "execute_tool_calls"
        /\ batch' = tool_calls /\ results' = ex.results
        /\ invoked' = ex.invoked
        /\ execution_history' = ex.history
        /\ snapshot' = Seen(snapshot, ex.history)
        /\ UNCHANGED <<tool_registry, invocation, routing, threads>>

CallGetExecutionHistory ==
    /\ called' = "get_execution_history"
    /\ snapshot' = get_execution_history(execution_history)
    /\ UNCHANGED <<execution_history, tool_registry, batch, results, invoked,
                   invocation, routing, threads>>

CallClearHistory ==
    /\ called' = "clear_history"
    /\ execution_history' = clear_history(execution_history)
    /\ snapshot' = Seen(snapshot, execution_history')
    /\ UNCHANGED <<tool_registry, batch, results, invoked, invocation, routing,
                   threads>>

\* the caller appends to, or pops from, the list get_execution_history returned
CallerChangesList(items) ==
    /\ snapshot # NoSnapshot
    /\ items # snapshot.items
    /\ called' = "list changed"
    /\ snapshot' = [snapshot EXCEPT !.items = items]
    /\ execution_history' = IF snapshot.obj = "log" THEN items ELSE execution_history
    /\ UNCHANGED <<tool_registry, batch, results, invoked, invocation, routing,
                   threads>>

\* a new executor is handed a batch, a request, or a batch and then a request
BatchNext ==
    \/ \E tool_call \in SingleRequests :
          called \in {None, "execute_tool_calls"} /\ CallExecuteToolCall(tool_call)
    \/ \E tool_calls \in Batches :
          called = None /\ CallExecuteToolCalls(tool_calls)

BatchSpec == Init /\ [][BatchNext]_vars

\* what a caller puts into the list it holds
Mine == [tool_name |-> "mine"]

\* an executor is used again and again, for short batches
ExecutorNext ==
    \/ \E tool_call \in {ReqLookup, ReqGhost} :
          /\ Len(execution_history) < MaxLog
          /\ CallExecuteToolCall(tool_call)
    \/ \E tool_calls \in SeqsUpTo({ReqLookup, ReqGhost}, 2) :
          /\ Len(execution_history) + Len(tool_calls) <= MaxLog
          /\ CallExecuteToolCalls(tool_calls)
    \/ CallGetExecutionHistory
    \/ CallClearHistory
    \/ \E items \in {Append(snapshot.items, Mine)}
                   \cup {SubSeq(snapshot.items, 1, Len(snapshot.items) - 1)} :
          /\ called = "get_execution_history"
          /\ CallerChangesList(items)

ExecutorSpec == Init /\ [][ExecutorNext]_vars

----------------------------------------------------------------------------
(* Properties                                                              *)

Returned == pc = "done"
InRequest == pc \in {"openrouter_plain", "openrouter_tools", "bedrock_bearer",
                     "bedrock_boto3"}

IsPrefix(s, t) == Len(s) <= Len(t) /\ SubSeq(t, 1, Len(s)) = s

RECURSIVE Flatten(_)
Flatten(batches) ==
    IF batches = <<>> THEN <<>> ELSE Head(batches) \o Flatten(Tail(batches))

\* C1 as stated: for every max_retries value, the returned result carries an
\* 'attempt' field whose value lies in [1, max_retries].
C1_AttemptInRangeForEveryMaxRetries ==
    Returned => /\ Has(result, "attempt")
                /\ result["attempt"] \in 1..max_retries

\* C1 amended: for every max_retries >= 1 and every sequence of backend
\* answers, the returned result of either backend client (plain or tool path)
\* carries an 'attempt' field whose value lies in [1, max_retries]; with
\* max_retries <= 0 the result has no 'attempt' field.
C1_AttemptInRange ==
    Returned =>
        IF max_retries >= 1
        THEN Has(result, "attempt") /\ result["attempt"] \in 1..max_retries
        ELSE ~ Has(result, "attempt")

\* an invocation that returned from its last allowed attempt
C1_Witness ==
    /\ Returned /\ max_retries = MaxRetriesBound
    /\ Has(result, "attempt") /\ result["attempt"] = max_retries

\* number of attempts started so far
AttemptsMade == IF attempt < max_retries THEN attempt + 1 ELSE max_retries

\* a backend whose every request is one attempt (no bearer-token request
\* followed by a boto3 request within the same attempt)
OneRequestPerAttempt == backend = "openrouter" \/ bearer_token = None

\* C2: when the backend answers HTTP 429 (throttling) to every request and
\* max_retries = 3, the invocation makes exactly 3 attempts and returns
\* success=false with error="Max retries exceeded" and no error_code.
C2_ExhaustionReportsMaxRetries ==
    (Returned /\ max_retries = 3 /\ requests > 0 /\ throttled = requests) =>
        /\ AttemptsMade = 3
        /\ result["success"] = FALSE
        /\ result["error"] = "Max retries exceeded"
        /\ ~ Has(result, "error_code")

\* C3: when the backend answers HTTP 429 to attempts 1 and 2 and succeeds on
\* attempt 3 with max_retries = 3, the result is success=true with attempt=3,
\* and exactly two backoff delays occurred, the second twice as long as the
\* first (1 then 2 time units).
C3_ThrottledTwiceThenSuccess ==
    (/\ Returned /\ max_retries = 3 /\ OneRequestPerAttempt
     /\ throttled = 2 /\ last["kind"] = "ok") =>
        /\ result["success"] = TRUE
        /\ result["attempt"] = 3
        /\ Len(delays) = 2
        /\ delays[1] = 1
        /\ delays[2] = 2 * delays[1]

\* the tool path throttled twice, between tool turns, and then answered
C3_Witness ==
    /\ Returned /\ max_retries = 3 /\ path = "tools" /\ executes >= 2
    /\ throttled = 2 /\ last["kind"] = "ok"
    /\ result["success"] = TRUE

\* C4: a backoff delay is taken only between two attempts: only after a
\* retryable (throttling) failure of an attempt that is not the final one, the
\* delay after the failure of attempt index i is exactly 2^i, and the next
\* attempt follows it; so none is taken after the final attempt or after a
\* non-retryable failure.
C4_BackoffPlacement ==
    [][ delays' # delays =>
          /\ InRequest
          /\ last'["kind"] = "raise" /\ last'["throttle"]
          /\ attempt < max_retries - 1
          /\ delays' = Append(delays, 2^attempt)
          /\ attempt' = attempt + 1
          /\ InRequest' ]_vars

\* two delays were taken and the third attempt is running
C4_Witness == Len(delays) = 2 /\ InRequest /\ attempt = 2

\* the step sends a request that is answered by a failure of the given class
FailsWith(throttle) ==
    /\ requests' = requests + 1
    /\ last'["kind"] = "raise"
    /\ last'["throttle"] = throttle

\* C5: for each backend, an HTTP 429 / throttling-class failure in an attempt
\* that is not the last one is followed by a backoff delay and then a new
\* attempt (attempt number incremented), and it is the only kind of failure
\* that is followed by a new attempt.
C5_ThrottlingIsRetried ==
    [][ /\ (FailsWith(TRUE) /\ attempt < max_retries - 1) =>
              /\ delays' = Append(delays, 2^attempt)
              /\ attempt' = attempt + 1
              /\ InRequest'
        /\ (InRequest /\ attempt' # attempt) => FailsWith(TRUE) ]_vars

\* C6: a non-retryable failure (an HTTP error other than 429, or an
\* unexpected exception) ends the invocation immediately, with no further
\* request and no backoff, and the result has success=false together with
\* error, error_code and the attempt number at which the failure happened.
C6_NonRetryableFailureIsClassified ==
    [][ FailsWith(FALSE) =>
          /\ Returned'
          /\ delays' = delays
          /\ result'["success"] = FALSE
          /\ Has(result', "error")
          /\ Has(result', "error_code")
          /\ Has(result', "attempt") /\ result'["attempt"] = attempt + 1 ]_vars

\* C7: no exception reaches the caller of ModelClient.invoke_model: for every
\* model_id and every accepted argument combination the call returns a result.
C7_NoExceptionReachesCaller == via = "router" => pc # "raised"

\* C8: in every returned result, success = true if and only if the content
\* was taken from a terminal response (one with zero tool calls) and no
\* transport/API error was left unrecovered; the tool path never returns
\* success=true when the last response still requested tool calls.
C8_SuccessIffTerminalResponse ==
    Returned =>
        (result["success"] = TRUE <=>
            /\ last["kind"] = "ok"
            /\ response_body # Unbound
            /\ _extract_tool_calls_from_response(response_body) = <<>>)

\* C9: an invocation on the tool path terminates, also for a model that
\* requests at least one tool call in every response, and execute_tool_calls
\* is invoked at most 10 times during it.
C9_ToolLoopTerminates ==
    /\ [](executes <= 10)
    /\ (pc = "openrouter_tools") ~> Returned

\* every response of the invocation requested tools, and it returned
C9_Witness ==
    /\ Returned /\ path = "tools"
    /\ requests = 10 /\ Len(parsed) = requests /\ executes = 10

\* C10: within one tool-path invocation the accumulated tool_calls is never
\* reset: every later value extends the earlier one, across tool iterations
\* and retry attempts, and the tool_calls of the returned result (successful
\* or failed) is the concatenation, in order, of the tool calls parsed from
\* every response that requested tools.
C10_ToolCallsAccumulate ==
    /\ [][IsPrefix(all_tool_calls, all_tool_calls')]_vars
    /\ [](all_tool_calls = Flatten(parsed))
    /\ []((Returned /\ path = "tools") =>
             /\ Has(result, "tool_calls")
             /\ result["tool_calls"] = Flatten(parsed))

\* a failed result returned after tool turns in more than one attempt
C10_Witness ==
    /\ Returned /\ path = "tools" /\ result["success"] = FALSE
    /\ throttled >= 1 /\ Len(parsed) >= 3
    /\ parsed[1] # parsed[2]
    /\ Len(result["tool_calls"]) > Len(parsed[Len(parsed)])

----------------------------------------------------------------------------
(* One ModelClient called again and again                                  *)

RouterModelIds ==
    ModelIds \cup
    { <<"a","n","t","h","r","o","p","i","c",".","c">>,
      <<"g","p","t">>,
      <<"x","/","u","s",".","m">>,
      <<"m","e","t","a","/","l">> }

\* answers to the requests of these calls
RouterResponses ==
    {[kind |-> "ok", body |-> BodyFinal],
     [kind |-> "raise", exc |-> HTTPError(500, NoJson)]}

DispatchesTo(kind) ==
    {i \in 1..Len(dispatched) : dispatched[i].backend = kind}

\* the configuration is read-only once the router has it: cred is what it
\* held when the backend of m was first dispatched to
ConfigHolds(m, cred) ==
    IF _is_openrouter_model(m)
    THEN DispatchesTo("openrouter") # {} => cred = api_key
    ELSE DispatchesTo("bedrock") # {} => cred = bearer_token

\* the call is over (returned or raised) and the caller makes the next one:
\* the locals of the call are gone, the router's fields stay
NextInvocation ==
    /\ pc \in {"done", "raised"}
    /\ pc' = "idle"
    /\ via' = None /\ backend' = None /\ path' = None
    /\ model_id' = <<>> /\ max_retries' = 0 /\ tools' = <<>> /\ tool_executor' = None
    /\ attempt' = 0 /\ tool_iterations' = 0
    /\ all_tool_calls' = <<>> /\ messages' = <<>>
    /\ response_body' = Unbound
    /\ result' = Pending /\ raised' = None
    /\ delays' = <<>> /\ requests' = 0 /\ throttled' = 0 /\ executes' = 0
    /\ parsed' = <<>> /\ last' = [kind |-> "none"]
    /\ tool_defs_sent' = 0 /\ sent' = <<>>
    /\ UNCHANGED <<config, clients, execution_history, caller, routing, threads>>

RouterNext ==
    \/ \E m \in RouterModelIds, cred \in Credentials :
          /\ Len(dispatched) < MaxCalls
          /\ ConfigHolds(m, cred)
          /\ RouterInvoke(m, 1, <<>>, None, cred)
    \/ \E resp \in RouterResponses : OpenRouterPlainRequest(resp)
    \/ NextInvocation

RouterSpec == Init /\ [][RouterNext]_vars

----------------------------------------------------------------------------
(* Two tool-path invocations in parallel threads.  Each thread runs        *)
(* _invoke_model_with_tools with the executor its caller gave it; a turn   *)
(* of the while loop (request, execute_tool_calls, bookkeeping) or the     *)
(* final return is one step, and the steps of the threads interleave.      *)

Threads == {1, 2}

\* the executor a caller gives to thread t
ExecutorOf(t, shared) == IF shared THEN 1 ELSE t

\* what the backend answers to thread t: each thread's model asks for its
\* own tool calls
ThreadBodies(t) == IF t = 1 THEN {BodyFinal, BodyToolsA} ELSE {BodyFinal, BodyToolsB}

ThreadModelId == <<"o","p","e","n","a","i","/","g","p","t">>

ReturnedHistory_OfFirstExecutor(executor, all_logs) ==
    get_execution_history(all_logs[1]).items

\* 'tool_execution_history': tool_executor.get_execution_history()
ReturnedHistory(executor, all_logs) ==
    get_execution_history(all_logs[executor]).items

StartThreads(shared) ==
    /\ conc = NoThreads
    /\ conc' = [t \in Threads |->
                  [pc |-> "openrouter_tools", executor |-> ExecutorOf(t, shared),
                   tool_iterations |-> 0, all_tool_calls |-> <<>>,
                   result |-> Pending]]
    /\ logs' = [e \in {ExecutorOf(t, shared) : t \in Threads} |-> <<>>]
    /\ UNCHANGED <<invocation, execution_history, caller, routing>>

ThreadToolRequest(t, body) ==
    LET c          == conc[t]
        tool_calls == _extract_tool_calls_from_response(body)
    IN  /\ conc # NoThreads
        /\ c.pc = "openrouter_tools"
        /\ IF tool_calls = <<>>
           THEN /\ conc' = [conc EXCEPT ![t] =
                     [c EXCEPT !.pc = "done",
                               !.result = [ToolSuccess(ThreadModelId, body, 0,
                                                       c.all_tool_calls, <<>>)
                                           EXCEPT !.tool_execution_history =
                                               ReturnedHistory(c.executor, logs)]]]
                /\ logs' = logs
           ELSE LET ex    == execute_tool_calls(tool_calls, logs[c.executor])
                    calls == Extend(c.all_tool_calls, tool_calls)
                    turns == c.tool_iterations + 1
                    log2  == [logs EXCEPT ![c.executor] = ex.history]
                IN  /\ logs' = log2
                    /\ conc' = [conc EXCEPT ![t] =
                         IF ToolLoopContinues(turns)
                         THEN [c EXCEPT !.tool_iterations = turns,
                                        !.all_tool_calls = calls]
                         ELSE [c EXCEPT !.tool_iterations = turns,
                                        !.all_tool_calls = calls,
                                        !.pc = "done",
                                        !.result = [ToolSuccess(ThreadModelId, body, 0,
                                                                calls, <<>>)
                                                    EXCEPT !.tool_execution_history =
                                                        ReturnedHistory(c.executor, log2)]]]
        /\ UNCHANGED <<invocation, execution_history, caller, routing>>

ThreadsNext ==
    \/ \E shared \in BOOLEAN : StartThreads(shared)
    \/ \E t \in Threads : \E body \in ThreadBodies(t) :
          /\ conc # NoThreads
          /\ (body # BodyFinal) => conc[t].tool_iterations < MaxTurns
          /\ ThreadToolRequest(t, body)

ThreadsSpec == Init /\ [][ThreadsNext]_vars

----------------------------------------------------------------------------
(* Properties of the ToolExecutor                                          *)

NamesUnregistered(request) ==
    /\ Has(request, "name")
    /\ ~ Falsy(request["name"])
    /\ request["name"] \notin tool_registry

Remove(seq, i) == SubSeq(seq, 1, i - 1) \o SubSeq(seq, i + 1, Len(seq))

Unregistered(tool_calls) ==
    {i \in 1..Len(tool_calls) : NamesUnregistered(tool_calls[i])}

ErrorsAt(tool_results) ==
    {i \in 1..Len(tool_results) : tool_results[i].status = "error"}

\* C11 as stated: a batch in which exactly one request names an unregistered
\* tool returns one result per request, and exactly the result at that
\* position has status=error.
C11_OnlyTheUnregisteredFails ==
    (called = "execute_tool_calls" /\ Cardinality(Unregistered(batch)) = 1)
        => /\ Len(results) = Len(batch)
           /\ ErrorsAt(results) = Unregistered(batch)

\* C11 amended: execute_tool_calls returns one result per request, in request
\* order; result i is what request i gives when executed alone; taking a
\* request that names an unregistered tool out of the batch leaves the other
\* results as they are; and when exactly one request names an unregistered
\* tool and every other request succeeds on its own, exactly the result at
\* that position has status=error.
C11_BatchIsolation ==
    called = "execute_tool_calls" =>
        /\ Len(results) = Len(batch)
        /\ \A i \in 1..Len(batch) :
              /\ results[i].toolUseId \in {Get(batch[i], "toolUseId", "unknown")}
              /\ results[i] = execute_tool_call(batch[i]).ret
              /\ NamesUnregistered(batch[i]) =>
                    Remove(results, i)
                        = execute_tool_calls(Remove(batch, i), <<>>).results
        /\ ( /\ Cardinality(Unregistered(batch)) = 1
             /\ \A i \in 1..Len(batch) \ Unregistered(batch) :
                   execute_tool_call(batch[i]).ret.status = "success" )
              => ErrorsAt(results) = Unregistered(batch)

C11_Witness ==
    /\ called = "execute_tool_calls"
    /\ batch = <<ReqLookup, ReqGhost, ReqLookup>>
    /\ Len(results) = 3
    /\ ErrorsAt(results) = {2}

NamesRegistered(request) ==
    Has(request, "name") /\ request["name"] \in tool_registry

\* the handler of the tool a request names, called with the request's input
Handler(request) ==
    tool_execute(request["name"], Get(request, "input", EmptyDict))

HandlerRaises(request)  == NamesRegistered(request) /\ Handler(request).raises
HandlerReturns(request) == NamesRegistered(request) /\ ~ Handler(request).raises

\* the names of the registered tools a batch asks for, in order
HandlersAskedFor(tool_calls) ==
    LET asked == SelectSeq(tool_calls, NamesRegistered)
    IN  [i \in 1..Len(asked) |-> asked[i]["name"]]

Executed == called \in {"execute_tool_call", "execute_tool_calls"}

\* C12: a handler that raises gives a result with status=error and content
\* "Error executing tool '<name>': <cause>" at its position, nothing escapes
\* the call, and the requests after it are still executed: their handlers are
\* invoked and they get their own results.
C12_HandlerFailureIsContained ==
    Executed =>
        /\ Len(results) = Len(batch)
        /\ invoked = HandlersAskedFor(batch)
        /\ \A i \in 1..Len(batch) :
              HandlerRaises(batch[i]) =>
                /\ results[i].status = "error"
                /\ results[i].content =
                      <<[text |-> "Error executing tool '" \o batch[i]["name"]
                                  \o "': " \o Handler(batch[i]).cause]>>
                /\ \A j \in (i + 1)..Len(batch) :
                      HandlerReturns(batch[j]) => results[j].status = "success"

C12_Witness ==
    /\ called = "execute_tool_calls"
    /\ batch = <<ReqBoom, ReqLookup>>
    /\ results[1].content = <<[text |-> "Error executing tool 'boom': boom failed"]>>
    /\ results[2].status = "success"
    /\ invoked = <<"boom", "lookup">>

\* C13: every result echoes the request's call id, or "unknown" when the
\* request has none; a request without a tool name gets status=error with
\* "Tool name missing from tool call"; a request naming a tool that is not in
\* the registry gets status=error with "Tool '<name>' not found in registry",
\* and no handler is invoked for either.
C13_MalformedRequests ==
    Executed =>
        /\ Len(results) = Len(batch)
        /\ \A i \in 1..Len(batch) :
              /\ results[i].toolUseId = Get(batch[i], "toolUseId", "unknown")
              /\ ~ Has(batch[i], "name") =>
                    /\ results[i].status = "error"
                    /\ results[i].content =
                          <<[text |-> "Tool name missing from tool call"]>>
              /\ NamesUnregistered(batch[i]) =>
                    /\ results[i].status = "error"
                    /\ results[i].content =
                          <<[text |-> "Tool '" \o batch[i]["name"]
                                      \o "' not found in registry"]>>
        /\ Len(invoked) = Cardinality({i \in 1..Len(batch) : NamesRegistered(batch[i])})
        /\ \A k \in 1..Len(invoked) : invoked[k] \in tool_registry

C13_Witness ==
    /\ called = "execute_tool_calls"
    /\ batch = <<ReqNoId, ReqNoName, ReqGhost>>
    /\ results[1].toolUseId = "unknown"
    /\ results[2].toolUseId = "c4"
    /\ invoked = <<>>

\* what a step appended to the executor's log
Appended == SubSeq(execution_history', Len(execution_history) + 1,
                   Len(execution_history'))

AppendsOne(status) ==
    /\ execution_history' = execution_history \o Appended
    /\ Len(Appended) = 1
    /\ Appended[1].status = status

\* C14 as stated: executing a request for an unregistered tool appends
\* exactly one record, with status=error and no 'result' field; a handler
\* call that returns appends exactly one record with status=success whose
\* 'result' is the value the handler returned.
C14_HandlerReturnIsRecordedAsSuccess ==
    [][called' = "execute_tool_call" =>
        LET request == batch'[1] IN
        /\ NamesUnregistered(request) =>
              AppendsOne("error") /\ ~ Has(Appended[1], "result")
        /\ HandlerReturns(request) =>
              /\ AppendsOne("success")
              /\ Has(Appended[1], "result")
              /\ Appended[1].result = Handler(request).value]_vars

\* C14 amended: executing a request for an unregistered tool appends exactly
\* one record, with status=error and no 'result' field; a handler call whose
\* value is returned and serialized appends exactly one record with
\* status=success whose 'result' is the value the handler returned, not the
\* text; when the handler returns a mapping that json.dumps cannot serialize,
\* exactly one record with status=error and no 'result' field is appended.
C14_RecordPerExecution ==
    [][called' = "execute_tool_call" =>
        LET request == batch'[1]
            serializable == \/ Handler(request).kind # "dict"
                            \/ json_dumps_ok(Handler(request).value)
        IN
        /\ NamesUnregistered(request) =>
              AppendsOne("error") /\ ~ Has(Appended[1], "result")
        /\ HandlerReturns(request) =>
              IF serializable
              THEN /\ AppendsOne("success")
                   /\ Has(Appended[1], "result")
                   /\ Appended[1].result = Handler(request).value
              ELSE AppendsOne("error") /\ ~ Has(Appended[1], "result")]_vars

C14_Witness ==
    /\ called = "execute_tool_call"
    /\ batch = <<ReqLookup>>
    /\ Len(execution_history) > 1
    /\ execution_history[Len(execution_history)].result = [label |-> "x"]
    /\ results[1].content = <<[text |-> "{\n  \"label\": \"x\"\n}"]>>

ChangesLog == called' \in {"execute_tool_call", "execute_tool_calls", "clear_history"}

\* C15: the list get_execution_history returned holds the log as it was at
\* the call; a later execute_tool_call, execute_tool_calls or clear_history
\* leaves the list as it is, and appending to the list or removing from it
\* leaves the executor's log as it is.
C15_HistoryIsASnapshot ==
    [][/\ called' = "get_execution_history" =>
             snapshot'.items = execution_history /\ execution_history' = execution_history
       /\ (snapshot # NoSnapshot /\ ChangesLog) => snapshot'.items = snapshot.items
       /\ called' = "list changed" => execution_history' = execution_history]_vars

C15_Witness ==
    /\ called = "clear_history"
    /\ execution_history = <<>>
    /\ Len(snapshot.items) = 2
    /\ snapshot.items[2] = Mine

\* C16: clear_history empties the log, so that a get_execution_history right
\* after it returns an empty list, and leaves the registry as it is; a step
\* of using the executor that is not clear_history keeps every record the
\* log already has, in place.
C16_OnlyClearHistoryForgets ==
    [][/\ called' = "clear_history" =>
             execution_history' = <<>> /\ tool_registry' = tool_registry
       /\ (called = "clear_history" /\ called' = "get_execution_history") =>
             snapshot'.items = <<>>
       /\ called' \in {"execute_tool_call", "execute_tool_calls",
                        "get_execution_history"} =>
             IsPrefix(execution_history, execution_history')]_vars

C16_Witness ==
    /\ called = "get_execution_history"
    /\ snapshot.items = <<>>
    /\ execution_history = <<>>
    /\ batch = <<ReqLookup, ReqGhost>>

----------------------------------------------------------------------------
(* Properties of the router                                                *)

ContainsSeq(s, p) ==
    \E i \in 1..(Len(s) - Len(p) + 1) : SubSeq(s, i, i + Len(p) - 1) = p

ContainsPattern(m)   == \E p \in bedrock_prefixes : ContainsSeq(m, p)
StartsWithPattern(m) ==
    \E p \in bedrock_prefixes : Len(p) <= Len(m) /\ SubSeq(m, 1, Len(p)) = p
HasSlash(m)          == \E i \in 1..Len(m) : m[i] = "/"

SameIdSameBackend ==
    \A i, j \in 1..Len(dispatched) :
        dispatched[i].model_id = dispatched[j].model_id
            => dispatched[i].backend = dispatched[j].backend

\* C18 as stated: an identifier that contains one of the Bedrock prefix
\* patterns is dispatched to Bedrock, every other identifier that contains
\* '/' to OpenRouter, and equal identifiers to the same backend.
C18_ContainingAPatternGoesToBedrock ==
    /\ \A i \in 1..Len(dispatched) :
          LET m == dispatched[i].model_id IN
          /\ ContainsPattern(m) => dispatched[i].backend = "bedrock"
          /\ (~ ContainsPattern(m) /\ HasSlash(m)) => dispatched[i].backend = "openrouter"
    /\ SameIdSameBackend

\* C18 amended: an identifier that starts with one of the Bedrock prefix
\* patterns, or has no '/', is dispatched to Bedrock; every other identifier
\* (it has a '/', wherever a pattern may occur later in it) is dispatched to
\* OpenRouter; equal identifiers are dispatched to the same backend whatever
\* was called before.
C18_Classification ==
    /\ \A i \in 1..Len(dispatched) :
          LET m == dispatched[i].model_id IN
          /\ StartsWithPattern(m) => dispatched[i].backend = "bedrock"
          /\ ~ HasSlash(m) => dispatched[i].backend = "bedrock"
          /\ (~ StartsWithPattern(m) /\ HasSlash(m))
                => dispatched[i].backend = "openrouter"
    /\ SameIdSameBackend

C18_Witness ==
    /\ Len(dispatched) = 3
    /\ dispatched[1] = Dispatch(<<"u","s",".","c","l","a","u","d","e","/","v","1">>,
                                "bedrock", "BedrockClient#1")
    /\ dispatched[2].model_id = <<"x","/","u","s",".","m">>
    /\ dispatched[2].backend = "openrouter"
    /\ dispatched[3] = dispatched[1]

\* C19: for each backend kind the router makes at most one client instance:
\* none before the first call dispatched to the kind, and once it is made,
\* by the first call of the kind, it is the instance every call of the kind
\* uses and the one the router keeps; a call of one kind neither makes nor
\* replaces the client of the other kind.
C19_OneClientPerKind ==
    \A kind \in {"openrouter", "bedrock"} :
        LET cached == IF kind = "openrouter" THEN openrouter_client
                      ELSE bedrock_client
        IN  /\ constructed[kind] <= 1
            /\ DispatchesTo(kind) = {} => constructed[kind] = 0
            /\ constructed[kind] = 0 <=> cached = None
            /\ \A i \in DispatchesTo(kind) : dispatched[i].client = cached

C19_Witness ==
    /\ Len(dispatched) = 3
    /\ dispatched[1].backend = "openrouter"
    /\ dispatched[2].backend = "bedrock"
    /\ dispatched[3].backend = "openrouter"
    /\ dispatched[1].client = "OpenRouterClient#1"
    /\ dispatched[3].client = "OpenRouterClient#1"
    /\ openrouter_client = "OpenRouterClient#1"
    /\ bedrock_client = "BedrockClient#1"
    /\ constructed = [openrouter |-> 1, bedrock |-> 1]

----------------------------------------------------------------------------
(* Properties of the path selection                                        *)

\* invoke_model of a backend client was called
ClientCalled == pc # "idle" /\ raised # "ValueError"

\* C20: an invocation of either backend client takes the tool-aware path
\* exactly when tools is non-empty and a tool_executor is supplied; otherwise
\* it takes the plain path, no request carries tool definitions and the
\* executor is never called.
C20_ToolPathIffToolsAndExecutor ==
    ClientCalled =>
        IF UsesTools(tools, tool_executor)
        THEN path = "tools"
        ELSE path = "plain" /\ tool_defs_sent = 0 /\ executes = 0

----------------------------------------------------------------------------
(* Properties of two invocations in parallel                               *)

\* the records the tool calls of thread t leave in a log of their own
OwnRecords(t) == execute_tool_calls(conc[t].all_tool_calls, <<>>).history

CallIds(t) ==
    {conc[t].all_tool_calls[i].toolUseId : i \in 1..Len(conc[t].all_tool_calls)}

IsRecordOf1(r) == r.tool_use_id \in CallIds(1)
IsRecordOf2(r) == r.tool_use_id \in CallIds(2)

\* the records of a log that the tool calls of thread t left, in log order
RecordsOf(t, log) ==
    IF t = 1 THEN SelectSeq(log, IsRecordOf1) ELSE SelectSeq(log, IsRecordOf2)

SharesExecutor(t) == \E u \in Threads \ {t} : conc[u].executor = conc[t].executor

\* C17: with one executor for both invocations there is a single log that
\* interleaves the records of the two (each invocation's records in their
\* own order, nothing else in the log), and the history returned to an
\* invocation is that whole log as it is at the return; with an executor of
\* its own, the history returned to an invocation holds exactly the records
\* of its own tool calls.
C17_OneLogPerExecutor ==
    conc # NoThreads =>
        /\ \A t \in Threads :
              LET log == logs[conc[t].executor] IN
              /\ RecordsOf(t, log) = OwnRecords(t)
              /\ IF SharesExecutor(t)
                 THEN Len(log) = Len(OwnRecords(1)) + Len(OwnRecords(2))
                 ELSE log = OwnRecords(t)
        /\ \A t \in Threads :
              conc[t].pc = "done" =>
                LET history == conc[t].result.tool_execution_history IN
                IF SharesExecutor(t)
                THEN IsPrefix(history, logs[conc[t].executor])
                ELSE history = OwnRecords(t)

\* the history returned to thread 1 holds a record of a call only thread 2 made
C17_Witness ==
    /\ conc # NoThreads
    /\ SharesExecutor(1)
    /\ conc[1].pc = "done"
    /\ LET history == conc[1].result.tool_execution_history IN
       /\ Len(history) = 3
       /\ history[1].tool_use_id = "c1"
       /\ history[2].tool_use_id = "call_0"
       /\ history[3].tool_use_id = "c2"
       /\ CallIds(1) = {"c1"}

----------------------------------------------------------------------------
(* Properties of the returned result                                       *)

\* C21: a returned result has no 'error' field exactly when its success is
\* true, on both backends and both paths.
C21_ErrorAbsentIffSuccess ==
    Returned => (~ Has(result, "error") <=> result["success"] = TRUE)

\* the result returned after an attempt loop that sent nothing
C21_Witness ==
    /\ Returned /\ max_retries = 0 /\ requests = 0
    /\ result["success"] = FALSE
    /\ result["error"] = "Max retries exceeded"

\* the fields of a successful result of a path
SuccessFields(p) ==
    {"success", "content", "model_id", "usage", "attempt", "raw_response"}
    \cup (IF p = "tools" THEN {"tool_calls", "tool_execution_history"} ELSE {})

\* C22: a failed result has the fields of a successful result of the same
\* backend and path, and 'error' / 'error_code' in addition: content, usage,
\* attempt and, on the tool path, tool_calls and tool_execution_history are
\* in both.
C22_FailureHasTheShapeOfSuccess ==
    Returned =>
        /\ (DOMAIN result) \ {"error", "error_code"} = SuccessFields(path)
        /\ result["success"] = TRUE => DOMAIN result = SuccessFields(path)

\* C23: a tool-path invocation that returns carries, in
\* tool_execution_history, the executor's log as it is at the return.
C23_HistoryCopiedAtTheEnd ==
    (Returned /\ path = "tools") =>
        /\ Has(result, "tool_execution_history")
        /\ result["tool_execution_history"] = execution_history

----------------------------------------------------------------------------
(* Requests and attempts on the plain path                                 *)

\* C24 as stated: on the plain path every retry attempt sends exactly one
\* request, so the number of requests sent equals the attempt number the
\* result reports.
C24_OneRequestPerAttempt ==
    (Returned /\ path = "plain" /\ Has(result, "attempt")) =>
        requests = result["attempt"]

\* C24 amended: the number of requests sent equals the attempt number the
\* result reports on OpenRouter's plain path and on Bedrock without a bearer
\* token; on Bedrock with a bearer token an attempt sends the bearer request
\* and, when that one fails with an HTTP error or is answered with an
\* UnknownOperationException, a boto3 request as well, so the number of
\* requests lies between the attempt number and twice the attempt number.
C24_RequestsPerAttempt ==
    (Returned /\ path = "plain" /\ Has(result, "attempt")) =>
        IF OneRequestPerAttempt
        THEN requests = result["attempt"]
        ELSE /\ result["attempt"] <= requests
             /\ requests <= 2 * result["attempt"]

\* OpenRouter's plain path: the first request is throttled, the second answered
C24_Witness ==
    /\ Returned /\ backend = "openrouter" /\ path = "plain"
    /\ result["success"] = TRUE
    /\ result["attempt"] = 2 /\ requests = 2

\* C25: an invocation without tools whose first request succeeds returns
\* success = true and attempt = 1, and no backoff delay was slept.
C25_FirstRequestSucceeds ==
    (/\ path = "plain" /\ requests = 1 /\ last.kind = "ok"
     /\ ~ IsUnknownOperation(response_body)) =>
        /\ Returned
        /\ result["success"] = TRUE
        /\ result["attempt"] = 1
        /\ delays = <<>>

C25_Witness ==
    /\ Returned /\ backend = "bedrock" /\ path = "plain" /\ max_retries = MaxRetriesBound
    /\ requests = 1 /\ last.kind = "ok"
    /\ result["success"] = TRUE /\ result["attempt"] = 1 /\ delays = <<>>

----------------------------------------------------------------------------
(* What is read out of a response that lacks the expected fields           *)

ZeroUsage == [inputTokens |-> 0, outputTokens |-> 0, totalTokens |-> 0]

\* the body has none of the fields content is read from
ContentAbsent(body) ==
    {"choices", "content", "text", "output"} \cap DOMAIN body = {}

\* C26: a successful response whose content fields and/or usage block are
\* absent gives, on each backend, success = true with content "" where the
\* content fields are absent and a usage of zero input, output and total
\* tokens where the usage block is absent.
C26_ParsingDegrades ==
    (Returned /\ result["success"] = TRUE) =>
        LET body == result["raw_response"] IN
        /\ ContentAbsent(body) => result["content"] = ""
        /\ ~ Has(body, "usage") =>
              /\ DOMAIN result["usage"] = DOMAIN ZeroUsage
              /\ result["usage"] = ZeroUsage

----------------------------------------------------------------------------
(* The text of a ToolCallResult                                            *)

ReturnsMapping(request) ==
    HandlerReturns(request) /\ Handler(request).kind = "dict"

TextOf(tool_result) == tool_result["content"][1]["text"]

ParsesBackTo(text, value) == json_loads_ok(text) /\ json_loads(text) = value

----------------------------------------------------------------------------
(* The conversation of the tool path                                       *)

\* a step that handled a response requesting tool calls
ToolTurn == parsed' # parsed

\* the text the first choice of a response carries, "" when it has none
TextCarried(body) ==
    IF /\ Has(body, "choices") /\ body["choices"] # <<>>
       /\ Has(body["choices"][1], "message")
       /\ Has(body["choices"][1]["message"], "content")
       /\ body["choices"][1]["message"]["content"] # None
    THEN body["choices"][1]["message"]["content"]
    ELSE ""

\* C28: on the tool path the conversation only grows (each conversation is a
\* prefix of the next one); an iteration whose response requested k >= 1 tool
\* calls appends exactly one assistant message followed by exactly k
\* tool-role messages, in the order of the results, each tagged with the
\* call id of its ToolCallResult, and then adds one to the iteration count.
C28_ConversationGrowth ==
    [][pc = "openrouter_tools" =>
        /\ IsPrefix(messages, messages')
        /\ IF ToolTurn
           THEN LET tool_calls   == parsed'[Len(parsed')]
                    k            == Len(tool_calls)
                    tool_results == execute_tool_calls(tool_calls,
                                                       execution_history).results
                    n            == Len(messages)
                IN  /\ k >= 1 /\ Len(tool_results) = k
                    /\ Len(messages') = n + 1 + k
                    /\ messages'[n + 1]["role"] = "assistant"
                    /\ \A i \in 1..k :
                          /\ messages'[n + 1 + i]["role"] = "tool"
                          /\ messages'[n + 1 + i]["tool_call_id"]
                                = tool_results[i]["toolUseId"]
                    /\ tool_iterations' = tool_iterations + 1
           ELSE messages' = messages /\ tool_iterations' = tool_iterations]_vars

\* one iteration with three tool calls, two of them in the second choice
C28_Witness ==
    /\ path = "tools" /\ tool_iterations = 1 /\ Len(parsed) = 1
    /\ Len(parsed[1]) = 3
    /\ Len(messages) = Len(InitialMessages) + 4
    /\ messages[3]["role"] = "assistant"
    /\ messages[4]["tool_call_id"] = "call_0"
    /\ messages[5]["tool_call_id"] = "c2"
    /\ messages[6]["tool_call_id"] = "c3"

\* C29: a response with zero tool calls ends the tool path: the invocation
\* returns without another request, no tool is executed, the conversation is
\* not extended, and the result has success = true with the content and the
\* usage of that response.
C29_NoToolCallsIsTerminal ==
    [][(/\ pc = "openrouter_tools" /\ requests' = requests + 1 /\ last'.kind = "ok"
        /\ _extract_tool_calls_from_response(response_body') = <<>>) =>
        LET body == response_body' IN
        /\ pc' = "done"
        /\ messages' = messages
        /\ executes' = executes /\ execution_history' = execution_history
        /\ tool_iterations' = tool_iterations
        /\ result'["success"] = TRUE
        /\ result'["raw_response"] = body
        /\ result'["content"] = TextCarried(body)
        /\ Has(body, "usage") =>
              result'["usage"] = [inputTokens  |-> body["usage"]["prompt_tokens"],
                                  outputTokens |-> body["usage"]["completion_tokens"],
                                  totalTokens  |-> body["usage"]["total_tokens"]]]_vars

\* a tool call, then the final answer
C29_Witness ==
    /\ Returned /\ path = "tools" /\ requests = 2 /\ executes = 1
    /\ Len(messages) = Len(InitialMessages) + 2
    /\ result["success"] = TRUE
    /\ result["content"] = "answer"
    /\ result["usage"]["totalTokens"] = 3

\* C30: when the response of the last allowed iteration still requests tool
\* calls, they are executed and appended to the conversation, no further
\* request is sent, and the invocation returns success = true without an
\* error or any other sign of the cut: the result is built from that
\* response (its text, possibly empty) and tool_calls holds the calls of all
\* the iterations.
C30_CeilingReturnsSilently ==
    (Returned /\ path = "tools" /\ tool_iterations = max_tool_iterations) =>
        LET body == result["raw_response"] IN
        /\ result["success"] = TRUE
        /\ DOMAIN result = SuccessFields("tools")
        /\ Len(parsed) = max_tool_iterations /\ executes = max_tool_iterations
        /\ last.kind = "ok"
        /\ _extract_tool_calls_from_response(body) = parsed[max_tool_iterations]
        /\ messages[Len(messages)]["role"] = "tool"
        /\ Len(messages) = Len(InitialMessages) + max_tool_iterations
                           + Len(Flatten(parsed))
        /\ result["content"] = TextCarried(body)
        /\ result["tool_calls"] = Flatten(parsed)

C30_Witness ==
    /\ Returned /\ path = "tools" /\ tool_iterations = max_tool_iterations
    /\ result["success"] = TRUE
    /\ result["content"] = "partial"
    /\ Len(result["tool_calls"]) = 3 * max_tool_iterations

----------------------------------------------------------------------------
(* Retries of the tool path                                                *)

\* a parsed tool call, or a request, that carries a tool name
CarriesName(request) == ~ Falsy(Get(request, "name", None))

\* the step in which a throttled request of the tool path is retried
RetryStep ==
    /\ pc = "openrouter_tools" /\ pc' = "openrouter_tools"
    /\ requests' = requests + 1 /\ last'.kind = "raise"

\* C31: on the tool path a retry resumes: after an HTTP 429 that follows k
\* completed tool iterations the next request carries the conversation with
\* all k tool exchanges, no tool call of an earlier attempt is executed
\* again, and the iteration counter keeps its value, so the ceiling of 10
\* bounds the tool iterations of all the attempts together.
C31_RetryResumes ==
    [][/\ path' = "tools" =>
             /\ tool_iterations' <= max_tool_iterations
             /\ executes' = tool_iterations' /\ Len(parsed') = tool_iterations'
             /\ Len(execution_history')
                   = Len(SelectSeq(Flatten(parsed'), CarriesName))
       /\ RetryStep =>
             /\ attempt' = attempt + 1
             /\ tool_iterations' = tool_iterations
             /\ messages' = messages
             /\ all_tool_calls' = all_tool_calls
             /\ executes' = executes
             /\ execution_history' = execution_history
       /\ (pc = "openrouter_tools" /\ requests' = requests + 1) =>
             /\ sent' = messages
             /\ Len(sent') = Len(InitialMessages) + tool_iterations
                             + Len(Flatten(parsed))]_vars

\* one tool iteration, a throttled request, and the request of the second
\* attempt, which is answered
C31_Witness ==
    /\ path = "tools" /\ attempt = 1 /\ throttled = 1 /\ requests = 3
    /\ last.kind = "ok"
    /\ tool_iterations = 1 /\ executes = 1
    /\ Len(sent) = Len(InitialMessages) + 2
    /\ sent[4]["role"] = "tool"

----------------------------------------------------------------------------
(* Termination and what it costs                                           *)

\* C32: every invocation that sends a request returns; with max_retries >= 1
\* an invocation of the tool path has sent at most 9 + max_retries requests
\* and slept at most max_retries - 1 backoff delays, and an invocation of the
\* plain path makes at most max_retries attempts.
C32_EveryInvocationTerminates ==
    /\ []((path = "tools" /\ max_retries >= 1) =>
            /\ requests <= max_tool_iterations - 1 + max_retries
            /\ Len(delays) <= max_retries - 1)
    /\ []((path = "plain" /\ max_retries >= 1) =>
            /\ InRequest => attempt < max_retries
            /\ Has(result, "attempt") => result["attempt"] <= max_retries
            /\ Len(delays) <= max_retries - 1
            /\ OneRequestPerAttempt => requests <= max_retries)
    /\ InRequest ~> Returned

\* nine tool iterations, every retry used up, and the last request answered
C32_Witness ==
    /\ Returned /\ path = "tools" /\ max_retries = MaxRetriesBound
    /\ requests = max_tool_iterations - 1 + max_retries
    /\ Len(delays) = max_retries - 1
    /\ throttled = max_retries - 1

----------------------------------------------------------------------------
(* The result after the attempt loop                                       *)

Exhausted == Has(result, "error") /\ result["error"] = "Max retries exceeded"

\* C33: the result error = "Max retries exceeded", which has no attempt and
\* no error_code, is returned exactly when max_retries <= 0, and then no
\* request was sent; with max_retries >= 1 every failed result, also the one
\* for a throttling error on the last attempt, comes from inside the attempt
\* loop: it has attempt set and the backend's error as its error.
C33_ExhaustedOnlyWithoutAttempts ==
    Returned =>
        /\ Exhausted <=> max_retries <= 0
        /\ Exhausted =>
              /\ requests = 0
              /\ result["success"] = FALSE
              /\ ~ Has(result, "attempt") /\ ~ Has(result, "error_code")
        /\ (max_retries >= 1 /\ result["success"] = FALSE) =>
              /\ last.kind = "raise"
              /\ Has(result, "attempt") /\ result["attempt"] = attempt + 1
              /\ Has(result, "error") /\ result["error"] # "Max retries exceeded"
        /\ (max_retries >= 1 /\ last.kind = "raise" /\ last.throttle) =>
              /\ result["attempt"] = max_retries
              /\ result["error_code"] \in {"HTTP_429", "ThrottlingException"}

\* every attempt was throttled
C33_Witness ==
    /\ Returned /\ max_retries = MaxRetriesBound /\ throttled = max_retries
    /\ requests = max_retries
    /\ result["attempt"] = max_retries
    /\ result["error_code"] = "HTTP_429"
    /\ ~ Exhausted

----------------------------------------------------------------------------
(* Two threads call ModelClient.invoke_model on one router: the steps of   *)
(* _get_openrouter_client / _get_bedrock_client are taken one at a time,   *)
(* no lock is held between the test of the field and its assignment        *)

KindOf(m) == IF _is_openrouter_model(m) THEN "openrouter" ELSE "bedrock"

ClassOf(kind) == IF kind = "openrouter" THEN "OpenRouterClient" ELSE "BedrockClient"

\* self.openrouter_client / self.bedrock_client
Cached(kind) == IF kind = "openrouter" THEN openrouter_client ELSE bedrock_client

\* everything but the router's fields and the threads
outside == <<pc, args, attempt, toolvars, response_body, result, raised, counters,
             caller, logs>>

\* both threads have called invoke_model(model_id=...); the configuration
\* holds cred for both backends
StartCalls(m1, m2, cred) ==
    /\ pc = "idle" /\ conc = NoThreads
    /\ conc' = [t \in Threads |->
                  [pc |-> "called", model_id |-> IF t = 1 THEN m1 ELSE m2,
                   made |-> None, client |-> None]]
    /\ api_key' = cred /\ bearer_token' = cred
    /\ UNCHANGED <<clients, routing, outside>>

\* `if self.openrouter_client is None:`
ThreadChecks(t) ==
    LET c == conc[t] IN
    /\ conc # NoThreads /\ c.pc = "called"
    /\ conc' = [conc EXCEPT ![t].pc =
                   IF Cached(KindOf(c.model_id)) = None THEN "constructing"
                   ELSE "returning"]
    /\ UNCHANGED <<config, clients, routing, outside>>

\* `OpenRouterClient(self.config)` / `BedrockClient(self.config)`
ThreadConstructs(t) ==
    LET c    == conc[t]
        kind == IF conc = NoThreads THEN "none" ELSE KindOf(c.model_id)
    IN  /\ conc # NoThreads /\ c.pc = "constructing"
        /\ IF kind = "openrouter" /\ OpenRouterInitRaises(api_key)
           THEN /\ conc' = [conc EXCEPT ![t].pc = "raised"]
                /\ constructed' = constructed
           ELSE /\ conc' = [conc EXCEPT
                              ![t].pc = "assigning",
                              ![t].made = NewInstance(ClassOf(kind),
                                                      constructed[kind] + 1)]
                /\ constructed' = [constructed EXCEPT ![kind] = @ + 1]
        /\ UNCHANGED <<config, clients, dispatched, outside>>

\* `self.openrouter_client = ...`
ThreadAssigns(t) ==
    LET c == conc[t] IN
    /\ conc # NoThreads /\ c.pc = "assigning"
    /\ IF KindOf(c.model_id) = "openrouter"
       THEN openrouter_client' = c.made /\ UNCHANGED bedrock_client
       ELSE bedrock_client' = c.made /\ UNCHANGED openrouter_client
    /\ conc' = [conc EXCEPT ![t].pc = "returning"]
    /\ UNCHANGED <<config, routing, outside>>

\* `return self.openrouter_client`, then `client.invoke_model(...)`
ThreadReturns(t) ==
    LET c == conc[t] IN
    /\ conc # NoThreads /\ c.pc = "returning"
    /\ LET client == Cached(KindOf(c.model_id)) IN
       /\ conc' = [conc EXCEPT ![t].pc = "dispatched", ![t].client = client]
       /\ dispatched' = Append(dispatched,
                               Dispatch(c.model_id, KindOf(c.model_id), client))
    /\ UNCHANGED <<config, clients, constructed, outside>>

RaceNext ==
    \/ \E m1 \in RouterModelIds, m2 \in RouterModelIds, cred \in Credentials :
          StartCalls(m1, m2, cred)
    \/ \E t \in Threads : ThreadChecks(t)
    \/ \E t \in Threads : ThreadConstructs(t)
    \/ \E t \in Threads : ThreadAssigns(t)
    \/ \E t \in Threads : ThreadReturns(t)

RaceSpec == Init /\ [][RaceNext]_vars

\* C34: when two invocations for the same backend kind run concurrently on
\* a router whose client of that kind is not constructed yet, at most one
\* client instance of the kind is ever constructed and both invocations use
\* the same instance.
C34_OneInstanceUnderConcurrency ==
    conc # NoThreads =>
        /\ constructed.openrouter <= 1 /\ constructed.bedrock <= 1
        /\ \A i \in 1..Len(dispatched), j \in 1..Len(dispatched) :
              dispatched[i].backend = dispatched[j].backend =>
                  dispatched[i].client = dispatched[j].client

----------------------------------------------------------------------------
(* Tool messages and the assistant message they follow                     *)

\* the ids of the tool calls in the payload of an assistant message
PayloadIds(message) ==
    {Get(message["tool_calls"][n], "id", None) :
        n \in 1..Len(message["tool_calls"])} \ {None}

\* messages[j] is the assistant message of the iteration of messages[i]
AssistantOf(i, j) ==
    /\ j < i /\ messages[j]["role"] = "assistant"
    /\ \A n \in (j + 1)..i : messages[n]["role"] = "tool"

\* C35: every tool-role message answers a tool call of the assistant message
\* that precedes it in its iteration: its tool_call_id is the id of one of
\* the tool calls in that message's payload, also for tool calls parsed from
\* a choice other than the first and for calls whose id was synthesized.
C35_ToolMessagesAnswerTheAssistant ==
    path = "tools" =>
        \A i \in 1..Len(messages) :
            messages[i]["role"] = "tool" =>
                \E j \in 1..Len(messages) :
                    /\ AssistantOf(i, j)
                    /\ messages[i]["tool_call_id"] \in PayloadIds(messages[j])

----------------------------------------------------------------------------
(* Growth of the executor's log                                            *)

\* C36: between clears the executor's log only grows at its end: an
\* execute_tool_call leaves the existing records as they are and where they
\* are, appends exactly one record when the request carries a tool name
\* (registered or not, handler returning or raising) and none when the name
\* is missing; after a batch the log has grown by one record per named
\* request, in the order of the requests.
C36_LogGrowsByTheNamedRequests ==
    [][called' \in {"execute_tool_call", "execute_tool_calls"} =>
        LET named == SelectSeq(batch', CarriesName) IN
        /\ IsPrefix(execution_history, execution_history')
        /\ Len(Appended) = Len(named)
        /\ \A i \in 1..Len(named) :
              /\ Appended[i]["tool_name"] = named[i]["name"]
              /\ Appended[i]["tool_use_id"] = Get(named[i], "toolUseId", None)
              /\ Appended[i]["status"] \in {"success", "error"}]_vars

\* a request after a batch: the batch's records stay, one is added
C36_Witness ==
    /\ called = "execute_tool_call" /\ batch = <<ReqBoom>>
    /\ Len(execution_history) = 3
    /\ execution_history[1]["tool_name"] = "ghost"
    /\ execution_history[2]["tool_name"] = "lookup"
    /\ execution_history[3]["tool_name"] = "boom"
    /\ execution_history[3]["status"] = "error"

----------------------------------------------------------------------------
(* One executor used by two tool-path invocations, one after the other     *)

ReuseModelId == <<"o","p","e","n","a","i","/","g","p","t">>

\* the first invocation is over; the caller reads the executor's history
\* (get_execution_history) and starts the next invocation with the same
\* executor, without clear_history
ReuseExecutor ==
    /\ pc = "done" /\ path = "tools" /\ snapshot = NoSnapshot
    /\ snapshot' = get_execution_history(execution_history)
    /\ called' = "get_execution_history"
    /\ pc' = "idle"
    /\ via' = None /\ backend' = None /\ path' = None
    /\ model_id' = <<>> /\ max_retries' = 0 /\ tools' = <<>> /\ tool_executor' = None
    /\ attempt' = 0 /\ tool_iterations' = 0
    /\ all_tool_calls' = <<>> /\ messages' = <<>>
    /\ response_body' = Unbound
    /\ result' = Pending /\ raised' = None
    /\ delays' = <<>> /\ requests' = 0 /\ throttled' = 0 /\ executes' = 0
    /\ parsed' = <<>> /\ last' = [kind |-> "none"]
    /\ tool_defs_sent' = 0 /\ sent' = <<>>
    /\ UNCHANGED <<config, clients, execution_history, tool_registry, batch, results,
                   invoked, routing, threads>>

ReuseNext ==
    \/ DirectInvoke("openrouter", ReuseModelId, 1, <<"lookup", "count", "boom">>,
                    "executor", "secret")
    \/ \E resp \in OpenRouterToolResponses :
          /\ (resp.kind = "ok" /\ _extract_tool_calls_from_response(resp.body) # <<>>)
                => tool_iterations < MaxTurns
          /\ OpenRouterToolRequest(resp)
    \/ ReuseExecutor

ReuseSpec == Init /\ [][ReuseNext]_vars

\* C37: a successful tool-path invocation returns, after the records the
\* executor's log held when the invocation started (none for a new executor,
\* all the records of the earlier invocations for one reused without
\* clear_history), exactly one record per returned tool call that carries a
\* tool name, in the same order and with the same tool name and call id.
C37_HistoryMatchesToolCalls ==
    (Returned /\ path = "tools" /\ result["success"] = TRUE) =>
        LET named   == SelectSeq(result["tool_calls"], CarriesName)
            history == result["tool_execution_history"]
            earlier == snapshot.items
        IN  /\ IsPrefix(earlier, history)
            /\ Len(history) = Len(earlier) + Len(named)
            /\ \A i \in 1..Len(named) :
                  /\ history[Len(earlier) + i]["tool_name"] = named[i]["name"]
                  /\ history[Len(earlier) + i]["tool_use_id"] = named[i]["toolUseId"]

\* the second invocation with the executor returned
C37_Witness ==
    /\ Returned /\ path = "tools" /\ result["success"] = TRUE
    /\ snapshot # NoSnapshot /\ Len(snapshot.items) = 2
    /\ Len(result["tool_calls"]) = 4
    /\ Len(result["tool_execution_history"]) = 5

====
